---------------------------- MODULE Spec2Model ----------------------------
(***************************************************************************)
(* Model of the DC circuit solver of Resona (src/simulation/solver.ts):    *)
(* runSimulation and its helper solveLinearSystem, and of the editor       *)
(* operations of App.tsx and CircuitMode.tsx that create, copy and remove  *)
(* components.                                                             *)
(*                                                                         *)
(* Numbers.  The solver computes in IEEE-754 doubles.  The model computes  *)
(* in exact decimal-scaled rationals: a number is a record                 *)
(* [n, d, e] standing for (n / d) * 10^e with d > 0, in the normal form of *)
(* QNorm (zero is [0, 1, 0]).  The exponent keeps values such as 1e-9,     *)
(* 1e-12 and 1e10 inside the 32-bit integers of TLC.                       *)
(* Arrays are 0-based in the source and 1-based sequences here.            *)
(***************************************************************************)
EXTENDS Integers, Sequences, FiniteSets, TLC

\* ------------------------------------------------------------ numbers

Abs(x) == IF x < 0 THEN -x ELSE x

RECURSIVE Gcd(_, _)
Gcd(a, b) == IF b = 0 THEN a ELSE Gcd(b, a % b)

RECURSIVE Pow10(_)
Pow10(k) == IF k = 0 THEN 1 ELSE 10 * Pow10(k - 1)

\* floor(x / 10^k) for x >= 0, k >= 0, without forming 10^k
RECURSIVE DivPow10(_, _)
DivPow10(x, k) == IF k = 0 \/ x = 0 THEN x ELSE DivPow10(x \div 10, k - 1)

QZero == [n |-> 0, d |-> 1, e |-> 0]

\* the number (n / d) * 10^e (d > 0) in normal form: the fraction of the
\* whole value in lowest terms, with its powers of 10 moved to the exponent.
\* Each number has one normal form, so equal numbers are equal records.
RECURSIVE QNorm(_, _, _)
QNorm(n, d, e) ==
    IF n = 0 THEN QZero
    ELSE LET g  == Gcd(Abs(n), d)
             n1 == n \div g
             d1 == d \div g
         IN  IF n1 % 10 = 0 THEN QNorm(n1 \div 10, d1, e + 1)
             ELSE IF d1 % 10 = 0 THEN QNorm(n1, d1 \div 10, e - 1)
             ELSE IF e > 0 /\ (d1 % 2 = 0 \/ d1 % 5 = 0)
                  THEN QNorm(n1 * 10, d1, e - 1)
             ELSE IF e < 0 /\ (n1 % 2 = 0 \/ n1 % 5 = 0)
                  THEN QNorm(n1, d1 * 10, e + 1)
             ELSE [n |-> n1, d |-> d1, e |-> e]

QInt(k) == QNorm(k, 1, 0)

QNeg(a) == [a EXCEPT !.n = -a.n]

QAbs(a) == [a EXCEPT !.n = Abs(a.n)]

QAdd(a, b) ==
    IF a.n = 0 THEN b
    ELSE IF b.n = 0 THEN a
    ELSE LET m  == IF a.e < b.e THEN a.e ELSE b.e
             an == a.n * Pow10(a.e - m)
             bn == b.n * Pow10(b.e - m)
         IN  QNorm(an * b.d + bn * a.d, a.d * b.d, m)

QSub(a, b) == QAdd(a, QNeg(b))

QMul(a, b) ==
    IF a.n = 0 \/ b.n = 0 THEN QZero
    ELSE LET g1 == Gcd(Abs(a.n), b.d)
             g2 == Gcd(Abs(b.n), a.d)
         IN  QNorm((a.n \div g1) * (b.n \div g2),
                   (a.d \div g2) * (b.d \div g1), a.e + b.e)

\* a / b for b # 0
QDiv(a, b) ==
    QMul(a, [n |-> IF b.n < 0 THEN -b.d ELSE b.d, d |-> Abs(b.n), e |-> -b.e])

\* x * 10^p > y for integers x, y >= 0 and any integer p, without overflow
ScaledGt(x, p, y) ==
    IF p >= 0 THEN x > DivPow10(y, p)
    ELSE x >= 1 /\ DivPow10(x - 1, -p) >= y

\* a > b for a, b >= 0
QGtNonNeg(a, b) == ScaledGt(a.n * b.d, a.e - b.e, b.n * a.d)

\* a < b
QLess(a, b) ==
    IF a.n < 0 THEN (b.n >= 0 \/ QGtNonNeg(QAbs(a), QAbs(b)))
    ELSE b.n > 0 /\ QGtNonNeg(b, a)

\* ------------------------------------------------- solveLinearSystem

\* the pivot threshold of solveLinearSystem: 1e-12
PivotEps == [n |-> 1, d |-> 1, e |-> -12]

\* const Ab = A.map((row, i) => [...row, b[i]]): a fresh augmented copy
Augment(A, b) == [i \in 1..Len(A) |-> Append(A[i], b[i])]

\* the pivot search of column i: the first row at or below i whose entry
\* in column i is strictly larger in magnitude than every earlier one
RECURSIVE FindPivot(_, _, _, _)
FindPivot(Ab, i, k, maxRow) ==
    IF k > Len(Ab) THEN maxRow
    ELSE FindPivot(Ab, i, k + 1,
                   IF QGtNonNeg(QAbs(Ab[k][i]), QAbs(Ab[maxRow][i]))
                   THEN k ELSE maxRow)

\* [Ab[i], Ab[maxRow]] = [Ab[maxRow], Ab[i]]
SwapRows(Ab, i, m) == [Ab EXCEPT ![i] = Ab[m], ![m] = Ab[i]]

\* mutant of PivotTooSmall: the threshold of the resistor test, 1e-9
PivotTooSmall_ShortEps(p) == QLess(QAbs(p), [n |-> 1, d |-> 1, e |-> -9])

\* Math.abs(Ab[i][i]) < 1e-12
PivotTooSmall(p) == QLess(QAbs(p), PivotEps)

\* mutant of EliminateBelow: the inner loop stops at j < n, so the
\* right-hand side column is not updated
EliminateBelow_SkipsRhs(Ab, i) ==
    [k \in 1..Len(Ab) |->
        IF k <= i THEN Ab[k]
        ELSE LET factor == QDiv(Ab[k][i], Ab[i][i])
             IN  [j \in 1..Len(Ab) + 1 |->
                    IF j < i \/ j = Len(Ab) + 1 THEN Ab[k][j]
                    ELSE QSub(Ab[k][j], QMul(factor, Ab[i][j]))]]

\* rows below i: Ab[k][j] -= factor * Ab[i][j] for j = i .. n
EliminateBelow(Ab, i) ==
    [k \in 1..Len(Ab) |->
        IF k <= i THEN Ab[k]
        ELSE LET factor == QDiv(Ab[k][i], Ab[i][i])
             IN  [j \in 1..Len(Ab) + 1 |->
                    IF j < i THEN Ab[k][j]
                    ELSE QSub(Ab[k][j], QMul(factor, Ab[i][j]))]]

\* the elimination loop from column i on; <<>> stands for the early
\* "return null" (a system has at least one row, so <<>> is no matrix)
RECURSIVE Eliminate(_, _)
Eliminate(Ab, i) ==
    IF i > Len(Ab) THEN Ab
    ELSE LET sw == SwapRows(Ab, i, FindPivot(Ab, i, i + 1, i))
         IN  IF PivotTooSmall(sw[i][i]) THEN <<>>
             ELSE Eliminate(EliminateBelow(sw, i), i + 1)

\* the pivots Ab[i][i] the loop tests at line 25, in order, from column i
\* on: each after its row swap, the last one included when it ends the loop
RECURSIVE PivotsTested(_, _)
PivotsTested(Ab, i) ==
    IF i > Len(Ab) THEN <<>>
    ELSE LET sw == SwapRows(Ab, i, FindPivot(Ab, i, i + 1, i))
         IN  <<sw[i][i]>> \o
             (IF PivotTooSmall(sw[i][i]) THEN <<>>
              ELSE PivotsTested(EliminateBelow(sw, i), i + 1))

\* sum of Ab[i][j] * x[j] for j = from .. n
RECURSIVE RowSum(_, _, _, _)
RowSum(Ab, x, i, j) ==
    IF j > Len(Ab) THEN QZero
    ELSE QAdd(QMul(Ab[i][j], x[j]), RowSum(Ab, x, i, j + 1))

\* back substitution from row i up to row 1; x holds rows i+1 .. n
RECURSIVE BackSubstitute(_, _, _)
BackSubstitute(Ab, x, i) ==
    IF i = 0 THEN x
    ELSE BackSubstitute(Ab,
            [x EXCEPT ![i] = QDiv(QSub(Ab[i][Len(Ab) + 1], RowSum(Ab, x, i, i + 1)),
                                  Ab[i][i])],
            i - 1)

SingularMsg ==
    "Matrix is singular, circuit may be unsolvable (e.g., floating components or shorted voltage source)."

\* mutant of solveLinearSystem: a singular system yields the zero vector
\* in place of null
solveLinearSystem_ZeroOnSingular(A, b) ==
    LET n  == Len(A)
        Ab == Eliminate(Augment(A, b), 1)
    IN  [null |-> FALSE,
         x |-> IF Ab = <<>> /\ n > 0 THEN [i \in 1..n |-> QZero]
               ELSE BackSubstitute(Ab, [i \in 1..n |-> QZero], n),
         log |-> <<>>]

\* solveLinearSystem(A, b): null or the vector x, and what it wrote with
\* console.error
solveLinearSystem(A, b) ==
    LET n  == Len(A)
        Ab == Eliminate(Augment(A, b), 1)
    IN  IF Ab = <<>> /\ n > 0
        THEN [null |-> TRUE, x |-> <<>>, log |-> <<SingularMsg>>]
        ELSE [null |-> FALSE,
              x |-> BackSubstitute(Ab, [i \in 1..n |-> QZero], n),
              log |-> <<>>]

\* ------------------------------------------------ runSimulation: maps

\* a Map as a function on its key set; Map.get of an absent key is undefined
EmptyMap == [k \in {} |-> k]

MapHas(m, k) == k \in DOMAIN m

MapSet(m, k, v) == [x \in (DOMAIN m) \cup {k} |-> IF x = k THEN v ELSE m[x]]

\* `${componentId}-${terminalIndex}`: the terminal index is 0 or 1, so the
\* text after the last "-" is the index and the text before it the id: the
\* key determines the pair and the pair the key
Key(componentId, terminalIndex) == <<componentId, terminalIndex>>

PointKey(p) == Key(p.componentId, p.terminalIndex)

\* ------------------------------------- runSimulation: 1. topology (BFS)

\* mutant of AdjAdd: the edge is recorded from start to end only
AdjAdd_OneWay(adj, conn) ==
    LET startKey == PointKey(conn.start)
        a1 == IF MapHas(adj, startKey) THEN adj ELSE MapSet(adj, startKey, <<>>)
    IN  [a1 EXCEPT ![startKey] = Append(@, conn.end)]

\* one connection's contribution to the adjacency map
AdjAdd(adj, conn) ==
    LET startKey == PointKey(conn.start)
        endKey   == PointKey(conn.end)
        a1 == IF MapHas(adj, startKey) THEN adj ELSE MapSet(adj, startKey, <<>>)
        a2 == IF MapHas(a1, endKey) THEN a1 ELSE MapSet(a1, endKey, <<>>)
        a3 == [a2 EXCEPT ![startKey] = Append(@, conn.end)]
    IN  [a3 EXCEPT ![endKey] = Append(@, conn.start)]

\* connections.forEach(conn => ...) from connection i on
RECURSIVE BuildAdj(_, _, _)
BuildAdj(conns, i, adj) ==
    IF i > Len(conns) THEN adj
    ELSE BuildAdj(conns, i + 1, AdjAdd(adj, conns[i]))

\* for (const neighbor of neighbors): st = [t2n, newNode, q]
RECURSIVE VisitNeighbors(_, _, _, _)
VisitNeighbors(neighbors, i, nodeCounter, st) ==
    IF i > Len(neighbors) THEN st
    ELSE LET neighbor == neighbors[i]
             nk == PointKey(neighbor)
         IN  VisitNeighbors(neighbors, i + 1, nodeCounter,
                IF MapHas(st.t2n, nk) THEN st
                ELSE [t2n     |-> MapSet(st.t2n, nk, nodeCounter),
                      newNode |-> Append(st.newNode, neighbor),
                      q       |-> Append(st.q, neighbor)])

\* while (head < q.length): head counts from 1 here
RECURSIVE Bfs(_, _, _, _)
Bfs(adj, head, nodeCounter, st) ==
    IF head > Len(st.q) THEN st
    ELSE LET currKey   == PointKey(st.q[head])
             neighbors == IF MapHas(adj, currKey) THEN adj[currKey] ELSE <<>>
         IN  Bfs(adj, head + 1, nodeCounter,
                 VisitNeighbors(neighbors, 1, nodeCounter, st))

\* the body of the two loops for terminal (comp, terminalIndex):
\* top = [t2n, nodes, nodeCounter]
VisitTerminal(adj, comp, terminalIndex, top) ==
    LET key == Key(comp.id, terminalIndex)
        pt  == [componentId |-> comp.id, terminalIndex |-> terminalIndex]
    IN  IF MapHas(top.t2n, key) THEN top
        ELSE LET st == Bfs(adj, 1, top.nodeCounter,
                           [t2n     |-> MapSet(top.t2n, key, top.nodeCounter),
                            newNode |-> <<pt>>,
                            q       |-> <<pt>>])
             IN  [t2n         |-> st.t2n,
                  nodes       |-> Append(top.nodes, st.newNode),
                  nodeCounter |-> top.nodeCounter + 1]

\* mutant of BuildNodes: the loops start only from the terminals of the
\* components that are stamped
RECURSIVE BuildNodes_StampedOnly(_, _, _, _)
BuildNodes_StampedOnly(adj, comps, i, top) ==
    IF i > Len(comps) THEN top
    ELSE BuildNodes_StampedOnly(adj, comps, i + 1,
            IF comps[i].type \in {"CAPACITOR", "OSCILLOSCOPE"} THEN top
            ELSE VisitTerminal(adj, comps[i], 1,
                    VisitTerminal(adj, comps[i], 0, top)))

\* for (const comp of components) for (const terminalIndex of [0, 1])
RECURSIVE BuildNodes(_, _, _, _)
BuildNodes(adj, comps, i, top) ==
    IF i > Len(comps) THEN top
    ELSE BuildNodes(adj, comps, i + 1,
            VisitTerminal(adj, comps[i], 1,
                VisitTerminal(adj, comps[i], 0, top)))

\* step 1 of runSimulation: [t2n, nodes, nodeCounter]
Topology(comps, conns) ==
    BuildNodes(BuildAdj(conns, 1, EmptyMap), comps, 1,
               [t2n |-> EmptyMap, nodes |-> <<>>, nodeCounter |-> 0])

\* --------------------------------- runSimulation: 2. ground, 3. MNA

Resistor     == "RESISTOR"
Capacitor    == "CAPACITOR"
Inductor     == "INDUCTOR"
PowerSource  == "POWER_SOURCE"
Oscilloscope == "OSCILLOSCOPE"

\* the short-circuit threshold of runSimulation: 1e-9
ShortEps == [n |-> 1, d |-> 1, e |-> -9]

IsPowerSource(c) == c.type = PowerSource

\* mutant of powerSourcesOf: an inductor counts as a source
powerSourcesOf_WithInductors(comps) ==
    SelectSeq(comps, LAMBDA c : c.type \in {PowerSource, Inductor})

\* components.filter(c => c.type === PowerSource)
powerSourcesOf(comps) == SelectSeq(comps, IsPowerSource)

\* mutant of HasCurrentVar: a PowerSource gets no branch current
HasCurrentVar_NoSource(c) ==
    \/ c.type = Inductor
    \/ (c.type = Resistor /\ QLess(c.value, ShortEps))

\* the filter of componentsWithCurrents
HasCurrentVar(c) ==
    \/ c.type = PowerSource
    \/ c.type = Inductor
    \/ (c.type = Resistor /\ QLess(c.value, ShortEps))

componentsWithCurrentsOf(comps) == SelectSeq(comps, HasCurrentVar)

\* mutant of GroundNodeOf: the positive terminal of the first source
GroundNodeOf_Positive(comps, t2n) ==
    LET k == Key(powerSourcesOf(comps)[1].id, 1)
    IN  IF MapHas(t2n, k) THEN t2n[k] ELSE 0

\* groundNode = terminalToNode.get(`${powerSources[0].id}-0`) ?? 0
GroundNodeOf(comps, t2n) ==
    LET k == Key(powerSourcesOf(comps)[1].id, 0)
    IN  IF MapHas(t2n, k) THEN t2n[k] ELSE 0

\* for (let i = 0; i < numNodes; i++) if (i !== groundNode) set(i, currentIndex++)
RECURSIVE BuildNodeIndexMap(_, _, _, _, _)
BuildNodeIndexMap(numNodes, ground, i, currentIndex, m) ==
    IF i >= numNodes THEN m
    ELSE IF i # ground
         THEN BuildNodeIndexMap(numNodes, ground, i + 1, currentIndex + 1,
                                MapSet(m, i, currentIndex))
         ELSE BuildNodeIndexMap(numNodes, ground, i + 1, currentIndex, m)

\* A[r][c] += v, with the 0-based indices of the source
MatAdd(A, r, c, v) == [A EXCEPT ![r + 1][c + 1] = QAdd(@, v)]

\* mutant of StampResistor: the mutual (off-diagonal) terms are left out
StampResistor_NoMutual(A, comp, t2n, ground, nim) ==
    LET g  == QDiv(QInt(1), comp.value)
        n1 == t2n[Key(comp.id, 0)]
        n2 == t2n[Key(comp.id, 1)]
        a1 == IF n1 # ground THEN MatAdd(A, nim[n1], nim[n1], g) ELSE A
    IN  IF n2 # ground THEN MatAdd(a1, nim[n2], nim[n2], g) ELSE a1

\* the stamp of one ordinary resistor (value >= 1e-9)
StampResistor(A, comp, t2n, ground, nim) ==
    LET g  == QDiv(QInt(1), comp.value)
        n1 == t2n[Key(comp.id, 0)]
        n2 == t2n[Key(comp.id, 1)]
        a1 == IF n1 # ground THEN MatAdd(A, nim[n1], nim[n1], g) ELSE A
        a2 == IF n2 # ground THEN MatAdd(a1, nim[n2], nim[n2], g) ELSE a1
    IN  IF n1 # ground /\ n2 # ground
        THEN MatAdd(MatAdd(a2, nim[n1], nim[n2], QNeg(g)),
                    nim[n2], nim[n1], QNeg(g))
        ELSE a2

\* components.forEach(comp => { if (Resistor && value >= 1e-9) ... })
RECURSIVE StampResistors(_, _, _, _, _, _)
StampResistors(A, comps, i, t2n, ground, nim) ==
    IF i > Len(comps) THEN A
    ELSE StampResistors(
            IF comps[i].type = Resistor /\ ~QLess(comps[i].value, ShortEps)
            THEN StampResistor(A, comps[i], t2n, ground, nim) ELSE A,
            comps, i + 1, t2n, ground, nim)

\* mutant of SourceValue: z[currentVarIndex] = comp.value for every
\* current-variable component
SourceValue_AnyComponent(comp) == comp.value

\* the value of the constraint row of a current-variable component
SourceValue(comp) == IF comp.type = PowerSource THEN comp.value ELSE QZero

\* mutant of StampCurrent: the branch current is left out of the KCL rows
\* (only the constraint row is written)
StampCurrent_NoKcl(sys, comp, i, numVoltageVars, t2n, ground, nim) ==
    LET cv == numVoltageVars + i
        n1 == t2n[Key(comp.id, 0)]
        n2 == t2n[Key(comp.id, 1)]
        a1 == IF n2 # ground THEN MatAdd(sys.A, cv, nim[n2], QInt(1)) ELSE sys.A
        a2 == IF n1 # ground THEN MatAdd(a1, cv, nim[n1], QInt(-1)) ELSE a1
    IN  [A |-> a2, z |-> [sys.z EXCEPT ![cv + 1] = SourceValue(comp)]]

\* mutant of StampCurrent: the entries are assigned, not accumulated
StampCurrent_Assign(sys, comp, i, numVoltageVars, t2n, ground, nim) ==
    LET cv == numVoltageVars + i
        n1 == t2n[Key(comp.id, 0)]
        n2 == t2n[Key(comp.id, 1)]
        a1 == IF n2 # ground
              THEN [sys.A EXCEPT ![nim[n2] + 1][cv + 1] = QInt(1),
                                 ![cv + 1][nim[n2] + 1] = QInt(1)]
              ELSE sys.A
        a2 == IF n1 # ground
              THEN [a1 EXCEPT ![nim[n1] + 1][cv + 1] = QInt(-1),
                              ![cv + 1][nim[n1] + 1] = QInt(-1)]
              ELSE a1
    IN  [A |-> a2, z |-> [sys.z EXCEPT ![cv + 1] = SourceValue(comp)]]

\* the stamp of the i-th (0-based) current-variable component: sys = [A, z]
StampCurrent(sys, comp, i, numVoltageVars, t2n, ground, nim) ==
    LET cv == numVoltageVars + i
        n1 == t2n[Key(comp.id, 0)]
        n2 == t2n[Key(comp.id, 1)]
        a1 == IF n2 # ground
              THEN MatAdd(MatAdd(sys.A, nim[n2], cv, QInt(1)), cv, nim[n2], QInt(1))
              ELSE sys.A
        a2 == IF n1 # ground
              THEN MatAdd(MatAdd(a1, nim[n1], cv, QInt(-1)), cv, nim[n1], QInt(-1))
              ELSE a1
    IN  [A |-> a2, z |-> [sys.z EXCEPT ![cv + 1] = SourceValue(comp)]]

\* componentsWithCurrents.forEach((comp, i) => ...)
RECURSIVE StampCurrents(_, _, _, _, _, _, _)
StampCurrents(sys, cwc, i, numVoltageVars, t2n, ground, nim) ==
    IF i > Len(cwc) THEN sys
    ELSE StampCurrents(
            StampCurrent(sys, cwc[i], i - 1, numVoltageVars, t2n, ground, nim),
            cwc, i + 1, numVoltageVars, t2n, ground, nim)

\* step 3 of runSimulation: the system [A, z]
BuildSystem(comps, t2n, numNodes, ground, nim) ==
    LET cwc        == componentsWithCurrentsOf(comps)
        matrixSize == (numNodes - 1) + Len(cwc)
        A0 == [r \in 1..matrixSize |-> [c \in 1..matrixSize |-> QZero]]
        z0 == [r \in 1..matrixSize |-> QZero]
    IN  StampCurrents([A |-> StampResistors(A0, comps, 1, t2n, ground, nim),
                       z |-> z0],
                      cwc, 1, numNodes - 1, t2n, ground, nim)

\* ------------------------------------ runSimulation: 5. result mapper

ZeroResult == [voltage |-> QZero, current |-> QZero]

\* mutant of AllZero: the passive path returns no entries
AllZero_NoEntries(comps, i, results) == results

\* components.forEach(comp => { results[comp.id] = {voltage: 0, current: 0} })
RECURSIVE AllZero(_, _, _)
AllZero(comps, i, results) ==
    IF i > Len(comps) THEN results
    ELSE AllZero(comps, i + 1, MapSet(results, comps[i].id, ZeroResult))

\* nodeVoltages: ground at 0, every indexed node at its solved unknown
NodeVoltagesOf(ground, nim, solution) ==
    [nd \in {ground} \cup DOMAIN nim |->
        IF nd \in DOMAIN nim THEN solution[nim[nd] + 1] ELSE QZero]

\* componentsWithCurrents.findIndex(c => c.id === id), 0-based, -1 if none
RECURSIVE FindIndexById(_, _, _)
FindIndexById(cwc, id, i) ==
    IF i > Len(cwc) THEN -1
    ELSE IF cwc[i].id = id THEN i - 1
    ELSE FindIndexById(cwc, id, i + 1)

\* nodeVoltages.get(n) || 0
VoltageAt(nv, n) == IF MapHas(nv, n) THEN nv[n] ELSE QZero

\* mutant of ResultOf: an oscilloscope is reported as {voltage: 0, current: 0}
ResultOf_ScopeZero(comp, cwc, t2n, nv, solution, numVoltageVars) ==
    IF \/ ~MapHas(t2n, Key(comp.id, 0)) \/ ~MapHas(t2n, Key(comp.id, 1))
       \/ comp.type = Oscilloscope
    THEN ZeroResult
    ELSE LET v1 == VoltageAt(nv, t2n[Key(comp.id, 0)])
             v2 == VoltageAt(nv, t2n[Key(comp.id, 1)])
             voltage == QAbs(QSub(v2, v1))
             withCurrentIndex == FindIndexById(cwc, comp.id, 1)
         IN  [voltage |-> voltage,
              current |->
                IF withCurrentIndex # -1
                THEN QAbs(solution[numVoltageVars + withCurrentIndex + 1])
                ELSE IF comp.type = Resistor THEN QDiv(voltage, comp.value)
                ELSE QZero]

\* mutant of ResultOf: Ohm's law is applied to capacitors too
ResultOf_CapacitorOhm(comp, cwc, t2n, nv, solution, numVoltageVars) ==
    IF ~MapHas(t2n, Key(comp.id, 0)) \/ ~MapHas(t2n, Key(comp.id, 1))
    THEN ZeroResult
    ELSE LET v1 == VoltageAt(nv, t2n[Key(comp.id, 0)])
             v2 == VoltageAt(nv, t2n[Key(comp.id, 1)])
             voltage == QAbs(QSub(v2, v1))
             withCurrentIndex == FindIndexById(cwc, comp.id, 1)
         IN  [voltage |-> voltage,
              current |->
                IF withCurrentIndex # -1
                THEN QAbs(solution[numVoltageVars + withCurrentIndex + 1])
                ELSE IF comp.type \in {Resistor, Capacitor}
                     THEN QDiv(voltage, comp.value)
                ELSE QZero]

\* mutant of ResultOf: voltage = v2 - v1, without Math.abs
ResultOf_SignedVoltage(comp, cwc, t2n, nv, solution, numVoltageVars) ==
    IF ~MapHas(t2n, Key(comp.id, 0)) \/ ~MapHas(t2n, Key(comp.id, 1))
    THEN ZeroResult
    ELSE LET v1 == VoltageAt(nv, t2n[Key(comp.id, 0)])
             v2 == VoltageAt(nv, t2n[Key(comp.id, 1)])
             voltage == QSub(v2, v1)
             withCurrentIndex == FindIndexById(cwc, comp.id, 1)
         IN  [voltage |-> voltage,
              current |->
                IF withCurrentIndex # -1
                THEN QAbs(solution[numVoltageVars + withCurrentIndex + 1])
                ELSE IF comp.type = Resistor THEN QDiv(voltage, comp.value)
                ELSE QZero]

\* the entry of one component
ResultOf(comp, cwc, t2n, nv, solution, numVoltageVars) ==
    IF ~MapHas(t2n, Key(comp.id, 0)) \/ ~MapHas(t2n, Key(comp.id, 1))
    THEN ZeroResult
    ELSE LET v1 == VoltageAt(nv, t2n[Key(comp.id, 0)])
             v2 == VoltageAt(nv, t2n[Key(comp.id, 1)])
             voltage == QAbs(QSub(v2, v1))
             withCurrentIndex == FindIndexById(cwc, comp.id, 1)
         IN  [voltage |-> voltage,
              current |->
                IF withCurrentIndex # -1
                THEN QAbs(solution[numVoltageVars + withCurrentIndex + 1])
                ELSE IF comp.type = Resistor THEN QDiv(voltage, comp.value)
                ELSE QZero]

\* mutant of MapResults: components that are never stamped get no entry
RECURSIVE MapResults_OmitOpen(_, _, _, _, _, _, _, _)
MapResults_OmitOpen(comps, i, cwc, t2n, nv, solution, numVoltageVars, results) ==
    IF i > Len(comps) THEN results
    ELSE MapResults_OmitOpen(comps, i + 1, cwc, t2n, nv, solution, numVoltageVars,
            IF comps[i].type \in {Capacitor, Oscilloscope} THEN results
            ELSE MapSet(results, comps[i].id,
                        ResultOf(comps[i], cwc, t2n, nv, solution, numVoltageVars)))

\* components.forEach(comp => { ... results[comp.id] = { voltage, current } })
RECURSIVE MapResults(_, _, _, _, _, _, _, _)
MapResults(comps, i, cwc, t2n, nv, solution, numVoltageVars, results) ==
    IF i > Len(comps) THEN results
    ELSE MapResults(comps, i + 1, cwc, t2n, nv, solution, numVoltageVars,
            MapSet(results, comps[i].id,
                   ResultOf(comps[i], cwc, t2n, nv, solution, numVoltageVars)))

\* --------------------------------------------- runSimulation, whole

FailedMsg == "Simulation failed: Could not solve linear system."

\* mutant of ArgsAtReturn: the resistor stamp keeps its conductance in the
\* component (comp.value = 1 / comp.value)
ArgsAtReturn_KeepsConductance(comps, conns) ==
    [components |->
        [i \in 1..Len(comps) |->
            IF comps[i].type = Resistor /\ ~QLess(comps[i].value, ShortEps)
            THEN [comps[i] EXCEPT !.value = QDiv(QInt(1), @)]
            ELSE comps[i]],
     connections |-> conns]

\* the arguments as a call leaves them: runSimulation and solveLinearSystem
\* assign to no element, field or slot of components or connections (every
\* write goes to a local: adj, terminalToNode, nodes, A, z, Ab, x, results)
ArgsAtReturn(comps, conns) == [components |-> comps, connections |-> conns]

\* what a call has when it returns before reaching a local
NotReached ==
    [results |-> EmptyMap, console |-> <<>>, terminalToNode |-> EmptyMap,
     nodes |-> <<>>, groundNode |-> 0, nodeIndexMap |-> EmptyMap,
     A |-> <<>>, z |-> <<>>, solution |-> <<>>, nodeVoltages |-> EmptyMap]

\* runSimulation(components, connections): the returned mapping (results),
\* the text written with console.error, the return statement taken
\* (returnedAt), the arguments as the call leaves them, and the locals
RunSimulationOf(comps, conns) ==
    LET args == ArgsAtReturn(comps, conns)
        top  == Topology(comps, conns)
        t2n  == top.t2n
        numNodes == Len(top.nodes)
        topo == [terminalToNode |-> t2n, nodes |-> top.nodes]
        ground == GroundNodeOf(comps, t2n)
        cwc  == componentsWithCurrentsOf(comps)
        numVoltageVars == numNodes - 1
        matrixSize == numVoltageVars + Len(cwc)
        nim  == BuildNodeIndexMap(numNodes, ground, 0, 0, EmptyMap)
        sys  == BuildSystem(comps, t2n, numNodes, ground, nim)
        sol  == solveLinearSystem(sys.A, sys.z)
        mna  == [groundNode |-> ground, nodeIndexMap |-> nim,
                 A |-> sys.A, z |-> sys.z]
        nv   == NodeVoltagesOf(ground, nim, sol.x)
    IN  IF Len(comps) = 0
        THEN args @@ [returnedAt |-> "empty"] @@ NotReached
        ELSE IF numNodes = 0
        THEN args @@ [returnedAt |-> "noNodes"] @@ topo @@ NotReached
        ELSE IF Len(powerSourcesOf(comps)) = 0
        THEN args @@ [returnedAt |-> "passive",
                      results |-> AllZero(comps, 1, EmptyMap)]
                  @@ topo @@ NotReached
        ELSE IF matrixSize = 0
        THEN args @@ [returnedAt |-> "zeroMatrix", groundNode |-> ground,
                      results |-> AllZero(comps, 1, EmptyMap)]
                  @@ topo @@ NotReached
        ELSE IF sol.null
        THEN args @@ [returnedAt |-> "singular",
                      console |-> sol.log \o <<FailedMsg>>]
                  @@ topo @@ mna @@ NotReached
        ELSE args @@ [returnedAt |-> "solved", console |-> sol.log,
                      solution |-> sol.x, nodeVoltages |-> nv,
                      results |-> MapResults(comps, 1, cwc, t2n, nv, sol.x,
                                             numVoltageVars, EmptyMap)]
                  @@ topo @@ mna @@ NotReached

\* ------------------------------------------------------ the inputs

\* bounds of the input space
MaxComponents  == 2
MaxConnections == 2
MaxCalls       == 2

\* component ids by position in the list (ids are unique, types.ts), and an
\* id that no component has, for connections that dangle
Ids     == <<"c1", "c2", "c3", "c4", "c5", "c6">>
GhostId == "ghost"

\* the values a component of each type may carry
ResistorValues == {QInt(10), QZero}
SourceValues   == {QInt(10), QInt(-5)}
DefaultValue   == QInt(1000)

Kinds ==
    {[type |-> Resistor, value |-> v] : v \in ResistorValues}
    \cup {[type |-> PowerSource, value |-> v] : v \in SourceValues}
    \cup {[type |-> t, value |-> DefaultValue] :
            t \in {Capacitor, Inductor, Oscilloscope}}

MkComponent(i, kind) == [id |-> Ids[i], type |-> kind.type, value |-> kind.value]

ComponentListsOfLen(n) ==
    {[i \in 1..n |-> MkComponent(i, ks[i])] : ks \in [1..n -> Kinds]}

IdsOf(comps) == {comps[i].id : i \in 1..Len(comps)}

\* the terminals a connection may name: those of the listed components and
\* those of the ghost
PointsOver(ids) == [componentId : ids, terminalIndex : {0, 1}]

ConnectionsOver(ids) == [start : PointsOver(ids), end : PointsOver(ids)]

ConnectionLists(ids) ==
    UNION {[1..n -> ConnectionsOver(ids)] : n \in 0..MaxConnections}

\* ------------------------------------------------- the state machine

VARIABLES
    components,      \* the first argument of runSimulation
    connections,     \* the second argument
    calls,           \* how many calls (of the operation the specification
                     \* is about) have returned
    results,         \* the mapping the last call returned
    console,         \* everything written with console.error so far
    returnedAt,      \* the return statement the last call took
    terminalToNode,  \* locals of the last call, as it returned
    nodes,
    groundNode,
    nodeIndexMap,
    A,
    z,
    solution,
    nodeVoltages,
    mode,            \* App state: the application mode
    now,             \* the clock: what Date.now() returns
    wireDrawing      \* CircuitMode state: <<>> for null, else <<start>>

vars == <<components, connections, calls, results, console, returnedAt,
          terminalToNode, nodes, groundNode, nodeIndexMap, A, z, solution,
          nodeVoltages, mode, now, wireDrawing>>

NoCallYet ==
    /\ calls = 0
    /\ results = EmptyMap
    /\ console = <<>>
    /\ returnedAt = "none"
    /\ terminalToNode = EmptyMap
    /\ nodes = <<>>
    /\ groundNode = 0
    /\ nodeIndexMap = EmptyMap
    /\ A = <<>>
    /\ z = <<>>
    /\ solution = <<>>
    /\ nodeVoltages = EmptyMap
    /\ mode = "CIRCUIT"
    /\ now = 0
    /\ wireDrawing = <<>>

Init ==
    /\ \E n \in 0..MaxComponents :
          /\ components \in ComponentListsOfLen(n)
          /\ connections \in ConnectionLists(IdsOf(components) \cup {GhostId})
    /\ NoCallYet

\* one call of runSimulation on the current arguments
runSimulation ==
    /\ calls < MaxCalls
    /\ \E r \in {RunSimulationOf(components, connections)} :
           /\ components' = r.components
           /\ connections' = r.connections
           /\ results' = r.results
           /\ console' = console \o r.console
           /\ returnedAt' = r.returnedAt
           /\ terminalToNode' = r.terminalToNode
           /\ nodes' = r.nodes
           /\ groundNode' = r.groundNode
           /\ nodeIndexMap' = r.nodeIndexMap
           /\ A' = r.A
           /\ z' = r.z
           /\ solution' = r.solution
           /\ nodeVoltages' = r.nodeVoltages
    /\ calls' = calls + 1
    /\ UNCHANGED <<mode, now, wireDrawing>>

Next == runSimulation

Spec == Init /\ [][Next]_vars

\* ------------------------------------- series rings (a second input space)

\* the most resistors in a ring
MaxRing == 3

RingResistorValues == {QInt(10), QInt(40)}
RingSourceValues   == {QInt(10), QInt(-5)}

\* the ring of n + 1 elements with the source at position pos of the list
\* and the resistors rs[1] .. rs[n] at the other positions, in order
RingComponents(n, pos, V, rs) ==
    [i \in 1..(n + 1) |->
        IF i = pos THEN [id |-> Ids[i], type |-> PowerSource, value |-> V]
        ELSE [id |-> Ids[i], type |-> Resistor,
              value |-> rs[IF i < pos THEN i ELSE i - 1]]]

\* terminal 1 of each element wired to terminal 0 of the next, the last to
\* the first; flip writes every connection with its two ends exchanged
RingConnections(n, flip) ==
    [i \in 1..(n + 1) |->
        LET from == [componentId |-> Ids[i], terminalIndex |-> 1]
            to   == [componentId |-> Ids[(i % (n + 1)) + 1], terminalIndex |-> 0]
        IN  IF flip THEN [start |-> to, end |-> from]
            ELSE [start |-> from, end |-> to]]

RingInit ==
    /\ \E n \in 1..MaxRing, V \in RingSourceValues, flip \in BOOLEAN :
          \E pos \in 1..(n + 1), rs \in [1..n -> RingResistorValues] :
              /\ components = RingComponents(n, pos, V, rs)
              /\ connections = RingConnections(n, flip)
    /\ NoCallYet

RingSpec == RingInit /\ [][Next]_vars

\* ------------------------------------------------------- the claims

Returned == calls >= 1

ComponentSet == {components[i] : i \in 1..Len(components)}

\* C1: the keys of the returned mapping are none at all or exactly the ids
\* of the input components.
C1_KeysEmptyOrAllIds ==
    Returned => (DOMAIN results = {} \/ DOMAIN results = IdsOf(components))

\* a call on two components returned an entry for each
C1_Witness ==
    /\ Returned
    /\ Len(components) = 2
    /\ returnedAt = "solved"
    /\ DOMAIN results = {"c1", "c2"}

\* C2: the returned mapping is empty exactly when the component list is
\* empty or the linear solve reported a singular system (and then a system
\* was built and solveLinearSystem returns null on it).
C2_EmptyOnlyWhenNoComponentsOrSingular ==
    Returned =>
        /\ (results = EmptyMap) <=>
              (Len(components) = 0 \/ returnedAt = "singular")
        /\ (returnedAt = "singular") =>
              (Len(A) > 0 /\ solveLinearSystem(A, z).null)
        /\ (returnedAt = "solved") =>
              (Len(A) > 0 /\ ~solveLinearSystem(A, z).null)
        /\ (returnedAt \in {"passive", "zeroMatrix"}) => A = <<>>

\* a non-empty list whose system is singular came back empty
C2_Witness ==
    /\ Returned
    /\ Len(components) = 2
    /\ returnedAt = "singular"
    /\ results = EmptyMap

HasPowerSource == \E c \in ComponentSet : c.type = PowerSource

IsSelfConnection(conn) == conn.start = conn.end

IsDangling(conn) ==
    \/ conn.start.componentId \notin IdsOf(components)
    \/ conn.end.componentId \notin IdsOf(components)

ConnectionSet == {connections[i] : i \in 1..Len(connections)}

\* C3: a non-empty list without a PowerSource yields {voltage: 0,
\* current: 0} for every component, whatever the connections, and no
\* matrix is built or solved.
C3_PassiveAllZero ==
    (Returned /\ Len(components) > 0 /\ ~HasPowerSource) =>
        /\ results = [id \in IdsOf(components) |-> ZeroResult]
        /\ returnedAt = "passive"
        /\ A = <<>> /\ z = <<>> /\ solution = <<>>

\* a passive pair of components wired with a dangling connection and a
\* self-connection
C3_Witness ==
    /\ Returned
    /\ Len(components) = 2
    /\ ~HasPowerSource
    /\ \E c \in ConnectionSet : IsDangling(c)
    /\ \E c \in ConnectionSet : IsSelfConnection(c)
    /\ results = [id \in {"c1", "c2"} |-> ZeroResult]

C5_NoDiagnosticText == console = <<>>

Terminals == {Key(id, t) : id \in IdsOf(components), t \in {0, 1}}

PointOf(k) == [componentId |-> k[1], terminalIndex |-> k[2]]

\* the terminals one connection away from terminal k, either direction
Neighbours(k) ==
    {PointKey(c.end) : c \in {c \in ConnectionSet : PointKey(c.start) = k}}
    \cup {PointKey(c.start) : c \in {c \in ConnectionSet : PointKey(c.end) = k}}

\* the terminals joined to those of S by a chain of connections
RECURSIVE Joined(_)
Joined(S) ==
    LET N == S \cup UNION {Neighbours(k) : k \in S}
    IN  IF N = S THEN S ELSE Joined(N)

Untouched(k) ==
    \A c \in ConnectionSet : PointKey(c.start) # k /\ PointKey(c.end) # k

\* the places (node, position) at which terminal k is listed in nodes
PlacesOf(k) ==
    {<<nd, j>> \in (1..Len(nodes)) \X (1..4 * (MaxComponents + MaxConnections)) :
        j <= Len(nodes[nd]) /\ PointKey(nodes[nd][j]) = k}

\* C6: after topology building every terminal of every input component has
\* one node id and is listed in exactly that node; two terminals share a
\* node id exactly when a chain of connections joins them; an untouched
\* terminal is alone in its node.
C6_NodesAreConnectionClasses ==
    (Returned /\ Len(components) > 0) =>
        /\ \A k \in Terminals :
              /\ MapHas(terminalToNode, k)
              /\ terminalToNode[k] \in 0..(Len(nodes) - 1)
              /\ Cardinality(PlacesOf(k)) = 1
              /\ \A pl \in PlacesOf(k) : pl[1] = terminalToNode[k] + 1
              /\ Untouched(k) => nodes[terminalToNode[k] + 1] = <<PointOf(k)>>
        /\ \A k1, k2 \in Terminals :
              (terminalToNode[k1] = terminalToNode[k2]) <=> (k2 \in Joined({k1}))

\* two terminals of different components share a node only through a chain
\* (no connection joins them directly), and another terminal is untouched
C6_Witness ==
    /\ Returned
    /\ Len(components) = 2
    /\ \E k1, k2 \in Terminals :
          /\ k1[1] # k2[1]
          /\ terminalToNode[k1] = terminalToNode[k2]
          /\ k2 \notin Neighbours(k1)
    /\ \E k \in Terminals :
          Untouched(k) /\ nodes[terminalToNode[k] + 1] = <<PointOf(k)>>

\* the first PowerSource in input order
FirstSource ==
    components[CHOOSE i \in 1..Len(components) :
                  /\ components[i].type = PowerSource
                  /\ \A j \in 1..(i - 1) : components[j].type # PowerSource]

NodeIds == 0..(Len(nodes) - 1)

\* C7: with a PowerSource present, the ground node is the node of terminal
\* 0 of the first PowerSource in input order; it is the one node without a
\* matrix unknown (the others get the unknowns 0 .. numNodes - 2, one
\* each), and its voltage is 0.
C7_GroundIsFirstSourceTerminal0 ==
    (Returned /\ HasPowerSource) =>
        /\ groundNode = terminalToNode[Key(FirstSource.id, 0)]
        /\ returnedAt \in {"singular", "solved"} =>
              /\ DOMAIN nodeIndexMap = NodeIds \ {groundNode}
              /\ {nodeIndexMap[nd] : nd \in DOMAIN nodeIndexMap}
                     = 0..(Len(nodes) - 2)
        /\ returnedAt = "solved" =>
              /\ nodeVoltages[groundNode] = QZero
              /\ \A nd \in NodeIds \ {groundNode} :
                    nodeVoltages[nd] = solution[nodeIndexMap[nd] + 1]

\* two PowerSources whose terminals 0 lie in different nodes: the ground
\* is that of the first, and the node of the second's terminal 0 carries a
\* nonzero voltage
C7_Witness ==
    /\ Returned
    /\ Len(components) = 2
    /\ components[1].type = PowerSource
    /\ components[2].type = PowerSource
    /\ returnedAt = "solved"
    /\ groundNode = terminalToNode[Key("c1", 0)]
    /\ terminalToNode[Key("c2", 0)] # groundNode
    /\ nodeVoltages[terminalToNode[Key("c2", 0)]] # QZero

\* the sum of the values of the Resistors of the list
RECURSIVE TotalResistance(_)
TotalResistance(i) ==
    IF i > Len(components) THEN QZero
    ELSE QAdd(IF components[i].type = Resistor THEN components[i].value ELSE QZero,
              TotalResistance(i + 1))

RingSource == CHOOSE c \in ComponentSet : c.type = PowerSource

\* the entries the claim states for a ring whose source drives v volts
RingResultsFor(v) ==
    LET I == QDiv(v, TotalResistance(1))
    IN  [id \in IdsOf(components) |->
            LET c == CHOOSE c \in ComponentSet : c.id = id
            IN  [current |-> I,
                 voltage |-> IF c.type = PowerSource THEN v
                             ELSE QMul(c.value, I)]]

\* C8 as stated: in a series ring of a source of value V and resistors
\* R1 .. Rn every element reports current V / (R1 + ... + Rn), resistor i
\* reports voltage Ri * V / (R1 + ... + Rn) and the source voltage V.
C8_RingReportsSignedValues ==
    Returned => results = RingResultsFor(RingSource.value)

\* C8 (amended): the same with the magnitude |V| in place of V.
C8_RingReportsMagnitudes ==
    Returned => results = RingResultsFor(QAbs(RingSource.value))

\* the ring of the spec: 10 V, 10 ohm, 40 ohm gives 0.2 A everywhere, 2 V,
\* 8 V and 10 V
C8_Witness ==
    /\ Returned
    /\ components = <<[id |-> "c1", type |-> PowerSource, value |-> QInt(10)],
                      [id |-> "c2", type |-> Resistor, value |-> QInt(10)],
                      [id |-> "c3", type |-> Resistor, value |-> QInt(40)]>>
    /\ results = [id \in {"c1", "c2", "c3"} |->
                    [current |-> QNorm(2, 10, 0),
                     voltage |-> IF id = "c1" THEN QInt(10)
                                 ELSE IF id = "c2" THEN QInt(2) ELSE QInt(8)]]

OfType(t) == {c \in ComponentSet : c.type = t}

\* |V(node of terminal 1) - V(node of terminal 0)| of component c, from the
\* node voltages of a solved call
NodeVoltageDrop(c) ==
    QAbs(QSub(nodeVoltages[terminalToNode[Key(c.id, 1)]],
              nodeVoltages[terminalToNode[Key(c.id, 0)]]))

\* C9 as stated: an Oscilloscope reports voltage 0 and current 0 in every
\* non-empty result, whatever it is wired to.
C9_ScopeReportsZeroZero ==
    (Returned /\ results # EmptyMap) =>
        \A c \in OfType(Oscilloscope) : results[c.id] = ZeroResult

\* C9 (amended): an Oscilloscope reports current 0 in every non-empty
\* result, and as voltage the absolute difference of the voltages of its
\* two terminals' nodes (0 when there is no PowerSource).
C9_ScopeReportsNodeVoltageDrop ==
    (Returned /\ results # EmptyMap) =>
        \A c \in OfType(Oscilloscope) :
            /\ results[c.id].current = QZero
            /\ results[c.id].voltage =
                  IF returnedAt = "solved" THEN NodeVoltageDrop(c) ELSE QZero

\* an Oscilloscope wired in parallel with a PowerSource reports the
\* magnitude of the source's value, and current 0
C9_Witness ==
    /\ Returned
    /\ Len(components) = 2
    /\ \E c \in OfType(Oscilloscope), p \in OfType(PowerSource) :
          /\ Key(c.id, 0) \in Joined({Key(p.id, 0)})
          /\ Key(c.id, 1) \in Joined({Key(p.id, 1)})
          /\ results[c.id] = [voltage |-> QAbs(p.value), current |-> QZero]
          /\ results[c.id].voltage # QZero

\* capacitor c lies directly across source p: each terminal of c is joined
\* to one terminal of p, the two terminals of p are not joined
WiredAcross(c, p) ==
    /\ Key(p.id, 1) \notin Joined({Key(p.id, 0)})
    /\ \E t \in {0, 1} :
          /\ Key(c.id, 0) \in Joined({Key(p.id, t)})
          /\ Key(c.id, 1) \in Joined({Key(p.id, 1 - t)})

\* C10: in every non-empty result every Capacitor and every Oscilloscope
\* reports current 0; and a Capacitor wired directly across a PowerSource,
\* with no other component, gets a non-empty result in which its voltage is
\* the absolute value of the source's value.
C10_OpenElementsCarryNoCurrent ==
    Returned =>
        /\ results # EmptyMap =>
              \A c \in OfType(Capacitor) \cup OfType(Oscilloscope) :
                  results[c.id].current = QZero
        /\ Len(components) = 2 =>
              \A c \in OfType(Capacitor), p \in OfType(PowerSource) :
                  WiredAcross(c, p) =>
                      /\ returnedAt = "solved"
                      /\ DOMAIN results = {c.id, p.id}
                      /\ results[c.id].voltage = QAbs(p.value)

\* a Capacitor across a source of value -5 reports 5 V and no current
C10_Witness ==
    /\ Returned
    /\ Len(components) = 2
    /\ \E c \in OfType(Capacitor), p \in OfType(PowerSource) :
          /\ WiredAcross(c, p)
          /\ p.value = QInt(-5)
          /\ results[c.id] = [voltage |-> QInt(5), current |-> QZero]

\* no connection names a terminal of component c
Unwired(c) ==
    \A conn \in ConnectionSet :
        conn.start.componentId # c.id /\ conn.end.componentId # c.id

\* the list is one Resistor that no connection touches and one PowerSource
\* (which, no connection touching the Resistor, is not connected to it)
LoneResistorAndSource ==
    /\ Len(components) = 2
    /\ \E r \in OfType(Resistor), p \in OfType(PowerSource) : Unwired(r)

\* C11: a call on one Resistor without any connection and one PowerSource
\* not connected to it finds the system singular and returns the empty
\* mapping, in either order of the two components.
C11_FloatingResistorIsSingular ==
    (Returned /\ LoneResistorAndSource) =>
        /\ returnedAt = "singular"
        /\ results = EmptyMap

\* the Resistor listed first, the PowerSource second, no connection at all
C11_Witness ==
    /\ Returned
    /\ LoneResistorAndSource
    /\ components[1].type = Resistor
    /\ components[1].value = QInt(10)
    /\ components[2].type = PowerSource
    /\ connections = <<>>
    /\ returnedAt = "singular"
    /\ results = EmptyMap

\* ------------- two PowerSources in parallel (a third input space)

\* the most components besides the two PowerSources
MaxOthers == 1

\* the kinds of the other components (an Oscilloscope is handled as a
\* Capacitor is: neither is ever stamped)
OtherKinds == Kinds \ {[type |-> Oscilloscope, value |-> DefaultValue],
                       [type |-> PowerSource, value |-> QInt(-5)]}

\* what a terminal of another component is wired to: nothing (-1), or
\* terminal 0 or 1 of the first PowerSource
AttachTargets == {-1, 0, 1}

\* the slots of a list of n components other than slots i and j, in order
OtherSlots(n, i, j) ==
    SelectSeq([s \in 1..n |-> s], LAMBDA s : s # i /\ s # j)

\* PowerSources of values V1 and V2 at slots i < j, the other slots filled
\* in order with components of the kinds ks
ParallelComponents(n, i, j, V1, V2, ks) ==
    [s \in 1..n |->
        IF s = i THEN [id |-> Ids[s], type |-> PowerSource, value |-> V1]
        ELSE IF s = j THEN [id |-> Ids[s], type |-> PowerSource, value |-> V2]
        ELSE MkComponent(s, ks[Cardinality({u \in 1..s : u # i /\ u # j})])]

\* terminal 0 wired to terminal 0 and terminal 1 to terminal 1
ParallelWires(i, j, flip) ==
    [t \in 1..2 |->
        LET from == [componentId |-> Ids[i], terminalIndex |-> t - 1]
            to   == [componentId |-> Ids[j], terminalIndex |-> t - 1]
        IN  IF flip THEN [start |-> to, end |-> from]
            ELSE [start |-> from, end |-> to]]

\* the wires of the other components: wire q joins terminal (q + 1) % 2 of
\* the ((q + 1) \div 2)-th other component to terminal w[q] of source i
RECURSIVE AttachWires(_, _, _, _)
AttachWires(slots, w, i, q) ==
    IF q > 2 * Len(slots) THEN <<>>
    ELSE (IF w[q] = -1 THEN <<>>
          ELSE <<[start |-> [componentId |-> Ids[slots[(q + 1) \div 2]],
                             terminalIndex |-> (q + 1) % 2],
                  end   |-> [componentId |-> Ids[i], terminalIndex |-> w[q]]]>>)
         \o AttachWires(slots, w, i, q + 1)

ParallelInit ==
    /\ \E k \in 0..MaxOthers, V1 \in SourceValues, V2 \in SourceValues,
          flip \in BOOLEAN :
          \E i \in 1..(k + 2), j \in 1..(k + 2), ks \in [1..k -> OtherKinds],
             w \in [1..(2 * k) -> AttachTargets] :
              /\ i < j
              /\ V1 # V2
              /\ components = ParallelComponents(k + 2, i, j, V1, V2, ks)
              /\ connections =
                    ParallelWires(i, j, flip)
                        \o AttachWires(OtherSlots(k + 2, i, j), w, i, 1)
    /\ NoCallYet

ParallelSpec == ParallelInit /\ [][Next]_vars

\* a connection joins terminals k1 and k2 directly, written either way
Wired(k1, k2) ==
    \E conn \in ConnectionSet :
        \/ PointKey(conn.start) = k1 /\ PointKey(conn.end) = k2
        \/ PointKey(conn.start) = k2 /\ PointKey(conn.end) = k1

ConflictingSourcesInParallel ==
    \E p, q \in OfType(PowerSource) :
        /\ p.id # q.id
        /\ p.value # q.value
        /\ Wired(Key(p.id, 0), Key(q.id, 0))
        /\ Wired(Key(p.id, 1), Key(q.id, 1))

\* C12: two PowerSources of different values wired terminal 0 to terminal 0
\* and terminal 1 to terminal 1 make the system singular, and the call
\* returns the empty mapping whatever else is in the circuit.
C12_ConflictingSourcesAreSingular ==
    (Returned /\ ConflictingSourcesInParallel) =>
        /\ returnedAt = "singular"
        /\ results = EmptyMap

\* the two sources with a Resistor wired across them
C12_Witness ==
    /\ Returned
    /\ ConflictingSourcesInParallel
    /\ Len(components) = 3
    /\ \E r \in OfType(Resistor), p \in OfType(PowerSource) :
          /\ r.value = QInt(10)
          /\ Wired(Key(r.id, 0), Key(p.id, 0))
          /\ Wired(Key(r.id, 1), Key(p.id, 1))
    /\ returnedAt = "singular"
    /\ results = EmptyMap

\* ------- a ring with a near-zero Resistor (a fourth input space)

\* values below the short-circuit threshold 1e-9: 0, 1e-10 and a negative
ShortValues == {QZero, QNorm(1, 1, -10), QInt(-5)}

\* the three elements of the ring, in every order of the list
ShortRingOrders ==
    {o \in [1..3 -> {PowerSource, Resistor, "SHORT"}] :
        \A i, j \in 1..3 : o[i] = o[j] => i = j}

ShortRingComponents(o, V, R, S) ==
    [i \in 1..3 |->
        IF o[i] = PowerSource
        THEN [id |-> Ids[i], type |-> PowerSource, value |-> V]
        ELSE [id |-> Ids[i], type |-> Resistor,
              value |-> IF o[i] = Resistor THEN R ELSE S]]

ShortRingInit ==
    /\ \E o \in ShortRingOrders, V \in RingSourceValues,
          R \in RingResistorValues, S \in ShortValues, flip \in BOOLEAN :
          /\ components = ShortRingComponents(o, V, R, S)
          /\ connections = RingConnections(2, flip)
    /\ NoCallYet

ShortRingSpec == ShortRingInit /\ [][Next]_vars

\* the far end of connection conn, seen from terminal k
OtherEnd(conn, k) == IF PointKey(conn.start) = k THEN conn.end ELSE conn.start

\* the connection at terminal k (in a ring each terminal has one)
ConnectionAt(k) ==
    CHOOSE conn \in ConnectionSet :
        PointKey(conn.start) = k \/ PointKey(conn.end) = k

\* the circuit with component s taken out and a wire in its place, joining
\* what its terminal 0 was wired to with what its terminal 1 was wired to
WireInsteadOf(s) ==
    [components  |-> SelectSeq(components, LAMBDA c : c.id # s.id),
     connections |->
        SelectSeq(connections,
                  LAMBDA conn : conn.start.componentId # s.id
                                /\ conn.end.componentId # s.id)
        \o <<[start |-> OtherEnd(ConnectionAt(Key(s.id, 0)), Key(s.id, 0)),
              end   |-> OtherEnd(ConnectionAt(Key(s.id, 1)), Key(s.id, 1))]>>]

NearZeroResistors ==
    {c \in OfType(Resistor) : QLess(c.value, ShortEps)}

OrdinaryResistors == OfType(Resistor) \ NearZeroResistors

\* C13: in a ring of a PowerSource, an ordinary Resistor and a Resistor of
\* value below 1e-9, the call succeeds, the near-zero Resistor reports
\* voltage 0 and the loop current (the current of the source, |V| / R), and
\* the source and the ordinary Resistor report what they report in the
\* circuit with a wire in place of the near-zero Resistor.
C13_NearZeroResistorIsAWire ==
    Returned =>
        /\ returnedAt = "solved"
        /\ \A s \in NearZeroResistors, p \in OfType(PowerSource),
              r \in OrdinaryResistors :
              LET wired == RunSimulationOf(WireInsteadOf(s).components,
                                           WireInsteadOf(s).connections)
              IN  /\ results[s.id].voltage = QZero
                  /\ results[s.id].current = QDiv(QAbs(p.value), r.value)
                  /\ results[s.id].current = results[p.id].current
                  /\ wired.returnedAt = "solved"
                  /\ results[p.id] = wired.results[p.id]
                  /\ results[r.id] = wired.results[r.id]

\* 10 V over 40 ohm with a 1e-10-ohm Resistor in the loop: the near-zero
\* Resistor reports 0 V and 0.25 A
C13_Witness ==
    /\ Returned
    /\ \E s \in NearZeroResistors, p \in OfType(PowerSource),
          r \in OrdinaryResistors :
          /\ s.value = QNorm(1, 1, -10)
          /\ p.value = QInt(10)
          /\ r.value = QInt(40)
          /\ results[s.id] = [voltage |-> QZero, current |-> QNorm(25, 100, 0)]
          /\ results[r.id] = [voltage |-> QInt(10), current |-> QNorm(25, 100, 0)]

\* the listed components a dangling connection is attached to
AttachedToDangling ==
    {c \in ComponentSet :
        \E conn \in ConnectionSet :
            /\ IsDangling(conn)
            /\ c.id \in {conn.start.componentId, conn.end.componentId}}

\* C14: when a connection names a component id that is not in the list,
\* the listed component attached to that connection is reported as
\* {voltage: 0, current: 0} in every non-empty result, and every other
\* component still has its entry.
C14_DanglingDegradesToZero ==
    (Returned /\ results # EmptyMap) =>
        /\ DOMAIN results = IdsOf(components)
        /\ \A c \in AttachedToDangling : results[c.id] = ZeroResult

\* ------------- solveLinearSystem on its own (a fifth input space)

\* the largest system with entries in MatrixEntries
MaxDim == 2

MatrixEntries == {QInt(-1), QZero, QInt(1)}
RhsEntries    == {QInt(1), QInt(-2)}

\* decimal exponents that put the entries of a matrix at and around the
\* thresholds 1e-9 and 1e-12
PivotScales == {0, -9, -10, -12, -13}

ScaledEntries(e) == {QNorm(k, 1, e) : k \in {-1, 0, 1, 2}}

\* the sizes of the scaled systems
ScaledDims == {1, 2}

SquareMatrices(n, E) == [1..n -> [1..n -> E]]

Vectors(n, E) == [1..n -> E]

\* A and z are the arguments of the call; the variables of runSimulation
\* and of the editor are idle
SolverInit ==
    /\ \/ \E n \in 1..MaxDim :
             /\ A \in SquareMatrices(n, MatrixEntries)
             /\ z \in Vectors(n, RhsEntries)
       \/ \E n \in ScaledDims, e \in PivotScales :
             /\ A \in SquareMatrices(n, ScaledEntries(e))
             /\ z \in Vectors(n, RhsEntries)
    /\ components = <<>>
    /\ connections = <<>>
    /\ calls = 0
    /\ results = EmptyMap
    /\ console = <<>>
    /\ returnedAt = "none"
    /\ terminalToNode = EmptyMap
    /\ nodes = <<>>
    /\ groundNode = 0
    /\ nodeIndexMap = EmptyMap
    /\ solution = <<>>
    /\ nodeVoltages = EmptyMap
    /\ mode = "CIRCUIT"
    /\ now = 0
    /\ wireDrawing = <<>>

\* mutant of SolverArgsAtReturn: the elimination runs on the rows of A
\* themselves (Ab = A, with b[i] pushed onto row i)
SolverArgsAtReturn_InPlace(M, b) ==
    LET Ab == Eliminate(Augment(M, b), 1)
    IN  [A |-> IF Ab = <<>> THEN Augment(M, b) ELSE Ab, b |-> b]

\* the arguments as solveLinearSystem leaves them: Ab is built from fresh
\* rows ([...row, b[i]]) and x is a new array; A and b are only read
SolverArgsAtReturn(M, b) == [A |-> M, b |-> b]

\* one call solveLinearSystem(A, z); returnedAt tells null from a vector
callSolveLinearSystem ==
    /\ calls < MaxCalls
    /\ \E r \in {solveLinearSystem(A, z)}, args \in {SolverArgsAtReturn(A, z)} :
           /\ A' = args.A
           /\ z' = args.b
           /\ solution' = r.x
           /\ returnedAt' = IF r.null THEN "null" ELSE "vector"
           /\ console' = console \o r.log
    /\ calls' = calls + 1
    /\ UNCHANGED <<components, connections, results, terminalToNode, nodes,
                   groundNode, nodeIndexMap, nodeVoltages, mode, now,
                   wireDrawing>>

SolverNext == callSolveLinearSystem

SolverSpec == SolverInit /\ [][SolverNext]_vars

\* the thresholds the claim and the code name
OneE9  == [n |-> 1, d |-> 1, e |-> -9]
OneE12 == [n |-> 1, d |-> 1, e |-> -12]

\* every pivot tested by the call on (A, z) was accepted when its magnitude
\* was eps or more and ended the call with null when it was below eps
PivotsDecidedBy(eps) ==
    LET ps == PivotsTested(Augment(A, z), 1)
    IN  \A k \in 1..Len(ps) :
            IF QLess(QAbs(ps[k]), eps)
            THEN k = Len(ps) /\ returnedAt = "null" /\ solution = <<>>
            ELSE k < Len(ps) \/ returnedAt = "vector"

\* C15 as stated: after the row swap the system is declared singular, and
\* no solution returned, exactly when the pivot's magnitude is below 1e-9.
C15_SingularBelow1e9 == Returned => PivotsDecidedBy(OneE9)

\* C15 (amended): the same with the threshold 1e-12.
C15_SingularBelow1e12 == Returned => PivotsDecidedBy(OneE12)

\* a pivot of 1e-10, between the two thresholds, was accepted and the
\* solution 1e10 returned
C15_Witness ==
    /\ Returned
    /\ A = <<<<QNorm(1, 1, -10)>>>>
    /\ z = <<QInt(1)>>
    /\ returnedAt = "vector"
    /\ solution = <<QNorm(1, 1, 10)>>

\* row[j] * x[j] + ... + row[n] * x[n]
RECURSIVE Dot(_, _, _)
Dot(row, x, j) ==
    IF j > Len(row) THEN QZero
    ELSE QAdd(QMul(row[j], x[j]), Dot(row, x, j + 1))

\* C19: a call of solveLinearSystem(A, b) leaves A and b as they were, and
\* when it returns a vector x instead of null, x has one entry per row and
\* A * x = b holds exactly.
C19_SolutionSatisfiesSystem ==
    [][/\ A' = A
       /\ z' = z
       /\ (returnedAt' = "vector" =>
              /\ Len(solution') = Len(A)
              /\ \A i \in 1..Len(A) : Dot(A[i], solution', 1) = z[i])]_vars

\* a system whose first pivot needs a row swap:
\* x2 = 1, x1 - x2 = -2 gives x = (-1, 1)
C19_Witness ==
    /\ Returned
    /\ A = <<<<QZero, QInt(1)>>,
             <<QInt(1), QInt(-1)>>>>
    /\ z = <<QInt(1), QInt(-2)>>
    /\ returnedAt = "vector"
    /\ solution = <<QInt(-1), QInt(1)>>

SameNode(c) == terminalToNode[Key(c.id, 0)] = terminalToNode[Key(c.id, 1)]

\* C16: in every non-empty result each component's voltage is the absolute
\* difference of the voltages of the nodes of its terminals 1 and 0, the
\* ground node being at 0 (all nodes are at 0 when nothing is solved);
\* so no voltage and no current is negative, and a component with both
\* terminals in one node reports voltage 0.
C16_VoltageIsAbsNodeDifference ==
    (Returned /\ results # EmptyMap) =>
        /\ returnedAt = "solved" => nodeVoltages[groundNode] = QZero
        /\ \A c \in ComponentSet :
              /\ results[c.id].voltage =
                    IF returnedAt = "solved" THEN NodeVoltageDrop(c) ELSE QZero
              /\ results[c.id].voltage.n >= 0
              /\ results[c.id].current.n >= 0
              /\ SameNode(c) => results[c.id].voltage = QZero

\* a source of -5 V puts its positive terminal's node below ground, and the
\* Resistor across it reports 5 V and 0.5 A
C16_Witness ==
    /\ Returned
    /\ returnedAt = "solved"
    /\ \E p \in OfType(PowerSource), r \in OfType(Resistor) :
          /\ nodeVoltages[terminalToNode[Key(p.id, 1)]] = QInt(-5)
          /\ results[p.id].voltage = QInt(5)
          /\ results[r.id] = [voltage |-> QInt(5), current |-> QNorm(5, 10, 0)]

CurrentVarComponents == {c \in ComponentSet : HasCurrentVar(c)}

\* V(node of terminal 1) - V(node of terminal 0), signed
SignedDrop(c) ==
    QSub(nodeVoltages[terminalToNode[Key(c.id, 1)]],
         nodeVoltages[terminalToNode[Key(c.id, 0)]])

\* C18: in every non-empty result of a circuit with a PowerSource the
\* returned solution satisfies the constraint row of each current-variable
\* component: every PowerSource reports the absolute value of its value
\* (its nodes differ by its value), and every Inductor and every Resistor
\* below 1e-9 reports voltage 0.
C18_ConstraintRowsSatisfied ==
    (Returned /\ results # EmptyMap /\ HasPowerSource) =>
        /\ returnedAt = "solved"
        /\ \A c \in CurrentVarComponents :
              IF c.type = PowerSource
              THEN /\ SignedDrop(c) = c.value
                   /\ results[c.id].voltage = QAbs(c.value)
              ELSE /\ SignedDrop(c) = QZero
                   /\ results[c.id].voltage = QZero

\* an Inductor hanging from the positive terminal of a source of -5 V: the
\* source reports 5 V, the Inductor 0 V
C18_Witness ==
    /\ Returned
    /\ results # EmptyMap
    /\ \E p \in OfType(PowerSource), l \in OfType(Inductor) :
          /\ p.value = QInt(-5)
          /\ Wired(Key(l.id, 0), Key(p.id, 1))
          /\ results[p.id].voltage = QInt(5)
          /\ results[l.id].voltage = QZero
          /\ nodeVoltages[terminalToNode[Key(l.id, 1)]] = QInt(-5)

\* --------- circuits of listed components only (a sixth input space)

\* one kind of each behaviour: a source, a stamped Resistor, an open
\* element and a current-variable short
WiringKinds ==
    {[type |-> PowerSource, value |-> QInt(10)],
     [type |-> Resistor, value |-> QInt(10)],
     [type |-> Capacitor, value |-> DefaultValue],
     [type |-> Inductor, value |-> DefaultValue]}

WiringInit ==
    /\ \E n \in 1..MaxComponents :
          /\ components \in {[i \in 1..n |-> MkComponent(i, ks[i])] :
                                ks \in [1..n -> WiringKinds]}
          /\ connections \in ConnectionLists(IdsOf(components))
    /\ NoCallYet

WiringSpec == WiringInit /\ [][Next]_vars

\* the same wire, written from its other end
Reversed(conn) == [conn EXCEPT !.start = conn.end, !.end = conn.start]

\* the connection lists that differ from conns by one rewriting: one
\* connection reversed, the list reordered, or one connection repeated
\* (at the end or at the front)
Rewritings(conns) ==
    LET n == Len(conns)
    IN  {[conns EXCEPT ![i] = Reversed(@)] : i \in 1..n}
        \cup {[i \in 1..n |-> conns[pm[i]]] : pm \in Permutations(1..n)}
        \cup {Append(conns, conns[i]) : i \in 1..n}
        \cup {<<conns[i]>> \o conns : i \in 1..n}

\* nodes as a partition: the set of the sets of terminals of each node
PartitionOf(nds) ==
    {{PointKey(nds[i][j]) : j \in 1..Len(nds[i])} : i \in 1..Len(nds)}

\* C17: reversing one connection, reordering the connection list or
\* repeating a connection changes neither the node of any terminal, nor the
\* partition into nodes, nor the returned mapping.
C17_WiringNotationIrrelevant ==
    Returned =>
        \A conns \in Rewritings(connections) :
            LET r == RunSimulationOf(components, conns)
            IN  /\ r.terminalToNode = terminalToNode
                /\ PartitionOf(r.nodes) = PartitionOf(nodes)
                /\ r.returnedAt = returnedAt
                /\ r.results = results

\* a source and a Resistor in a ring, solved: the two wires can be
\* reversed, exchanged and repeated
C17_Witness ==
    /\ Returned
    /\ Len(connections) = 2
    /\ connections[1] # connections[2]
    /\ returnedAt = "solved"
    /\ \E p \in OfType(PowerSource), r \in OfType(Resistor) :
          /\ Wired(Key(p.id, 1), Key(r.id, 0))
          /\ Wired(Key(r.id, 1), Key(p.id, 0))
          /\ results[r.id] = [voltage |-> QInt(10), current |-> QInt(1)]
    /\ Cardinality(Rewritings(connections)) >= 6

\* ------------------------------ the editor (App.tsx, CircuitMode.tsx)

\* the last clock value, and the most components on the canvas
MaxNow == 2
MaxEditorComponents == 3
MaxEditorConnections == 2

Circuit == "CIRCUIT"
Signal  == "SIGNAL"

\* `comp_${Date.now()}`
CompId(t) == "comp_" \o ToString(t)

\* `wire_${Date.now()}`
WireId(t) == "wire_" \o ToString(t)

\* the types dragged from the toolbar, and where they are dropped
DropTypes  == {Resistor, PowerSource}
DropPoints == {[x |-> 100, y |-> 50]}

\* the record c without the fields voltage and current
\* (const { voltage, current, ...rest } = c)
WithoutResults(c) ==
    [f \in (DOMAIN c) \ {"voltage", "current"} |-> c[f]]

\* components.find(c => c.id === id): the first component of that id
FindById(comps, id) ==
    comps[CHOOSE i \in 1..Len(comps) :
             /\ comps[i].id = id
             /\ \A j \in 1..(i - 1) : comps[j].id # id]

\* the solver's locals, which the editor does not hold
solverLocals ==
    <<terminalToNode, nodes, groundNode, nodeIndexMap, A, z, solution,
      nodeVoltages>>

EditorInit ==
    /\ components = <<>>
    /\ connections = <<>>
    /\ NoCallYet

\* time passes: Date.now() returns a later value
tick ==
    /\ now < MaxNow
    /\ now' = now + 1
    /\ UNCHANGED <<components, connections, calls, results, console,
                   returnedAt, solverLocals, mode, wireDrawing>>

\* a mode button of the toolbar: setMode(m); CircuitMode, which holds
\* wireDrawing, is mounted in Circuit mode only and starts with null
setMode(m) ==
    /\ mode' = m
    /\ wireDrawing' = IF m = mode THEN wireDrawing ELSE <<>>
    /\ UNCHANGED <<components, connections, calls, results, console,
                   returnedAt, solverLocals, now>>

\* handleDrop on the canvas, which is rendered in Circuit mode only
handleDrop(componentType, point) ==
    /\ mode = Circuit
    /\ Len(components) < MaxEditorComponents
    /\ components' = Append(components,
                            [id       |-> CompId(now),
                             type     |-> componentType,
                             position |-> point,
                             value    |-> DefaultValue])
    /\ UNCHANGED <<connections, calls, results, console, returnedAt,
                   solverLocals, mode, now, wireDrawing>>

\* handleDuplicate(id), from the context menu of a component on the canvas;
\* voltage and current are set to undefined, which reads as absent
handleDuplicate(id) ==
    /\ mode = Circuit
    /\ Len(components) < MaxEditorComponents
    /\ \E i \in 1..Len(components) : components[i].id = id
    /\ LET componentToDuplicate == FindById(components, id)
       IN  components' =
              Append(components,
                     [WithoutResults(componentToDuplicate) EXCEPT
                        !.id = CompId(now),
                        !.position = [x |-> @.x + 20, y |-> @.y + 20]])
    /\ UNCHANGED <<connections, calls, results, console, returnedAt,
                   solverLocals, mode, now, wireDrawing>>

\* handleDelete(id, type), from the context menu
handleDelete(id, type) ==
    /\ mode = Circuit
    /\ IF type = "component"
       THEN /\ components' = SelectSeq(components, LAMBDA c : c.id # id)
            /\ connections' =
                  SelectSeq(connections,
                            LAMBDA conn : conn.start.componentId # id
                                          /\ conn.end.componentId # id)
       ELSE /\ connections' = SelectSeq(connections, LAMBDA conn : conn.id # id)
            /\ UNCHANGED components
    /\ UNCHANGED <<calls, results, console, returnedAt, solverLocals,
                   mode, now, wireDrawing>>

\* handleReset: the canvas is cleared in Circuit mode; in Signal mode the
\* stored results are dropped (and the signal parameters, which are not
\* part of this model, reset)
handleReset ==
    /\ IF mode = Circuit
       THEN /\ components' = <<>>
            /\ connections' = <<>>
       ELSE /\ components' = [i \in 1..Len(components) |->
                                 WithoutResults(components[i])]
            /\ UNCHANGED connections
    /\ UNCHANGED <<calls, results, console, returnedAt, solverLocals,
                   mode, now, wireDrawing>>

\* handleTerminalMouseDown on a terminal of a component on the canvas
handleTerminalMouseDown(componentId, terminalIndex) ==
    /\ mode = Circuit
    /\ \E i \in 1..Len(components) : components[i].id = componentId
    /\ wireDrawing' = <<[componentId |-> componentId,
                         terminalIndex |-> terminalIndex]>>
    /\ UNCHANGED <<components, connections, calls, results, console,
                   returnedAt, solverLocals, mode, now>>

\* handleTerminalMouseUp on a terminal of a component on the canvas
handleTerminalMouseUp(componentId, terminalIndex) ==
    /\ mode = Circuit
    /\ \E i \in 1..Len(components) : components[i].id = componentId
    /\ wireDrawing # <<>>
    /\ IF wireDrawing[1].componentId = componentId
       THEN UNCHANGED connections
       ELSE /\ Len(connections) < MaxEditorConnections
            /\ connections' =
                  Append(connections,
                         [id    |-> WireId(now),
                          start |-> wireDrawing[1],
                          end   |-> [componentId |-> componentId,
                                     terminalIndex |-> terminalIndex]])
    /\ wireDrawing' = <<>>
    /\ UNCHANGED <<components, calls, results, console, returnedAt,
                   solverLocals, mode, now>>

\* handleMouseUp, the mouseup listener of the window while CircuitMode is
\* mounted
handleMouseUp ==
    /\ mode = Circuit
    /\ wireDrawing' = <<>>
    /\ UNCHANGED <<components, connections, calls, results, console,
                   returnedAt, solverLocals, mode, now>>

SimulateFailedMsg == "Simulation failed or circuit is invalid."

\* mutant of StoreResult: the current is stored as the voltage too
StoreResult_VoltageTwice(comp, simulationResults) ==
    IF MapHas(simulationResults, comp.id)
    THEN [f \in (DOMAIN comp) \cup {"voltage", "current"} |->
            IF f \in {"voltage", "current"}
            THEN simulationResults[comp.id].voltage
            ELSE comp[f]]
    ELSE comp

\* the callback of prevComponents.map in handleSimulate
StoreResult(comp, simulationResults) ==
    IF MapHas(simulationResults, comp.id)
    THEN [f \in (DOMAIN comp) \cup {"voltage", "current"} |->
            IF f = "voltage" THEN simulationResults[comp.id].voltage
            ELSE IF f = "current" THEN simulationResults[comp.id].current
            ELSE comp[f]]
    ELSE comp

\* handleSimulate, the Simulate button of the toolbar
handleSimulate ==
    /\ calls < MaxCalls
    /\ calls' = calls + 1
    /\ IF mode # Circuit
       THEN UNCHANGED <<components, results, console, returnedAt>>
       ELSE \E r \in {RunSimulationOf(components, connections)} :
               /\ results' = r.results
               /\ returnedAt' = r.returnedAt
               /\ IF r.results = EmptyMap
                  THEN /\ console' = console \o r.console
                                         \o <<SimulateFailedMsg>>
                       /\ UNCHANGED components
                  ELSE /\ console' = console \o r.console
                       /\ components' =
                             [i \in 1..Len(components) |->
                                 StoreResult(components[i], r.results)]
    /\ UNCHANGED <<connections, solverLocals, mode, now, wireDrawing>>

EditorNext ==
    \/ tick
    \/ \E m \in {Circuit, Signal} : setMode(m)
    \/ \E t \in DropTypes, pt \in DropPoints : handleDrop(t, pt)
    \/ \E i \in 1..Len(components) : handleDuplicate(components[i].id)
    \/ \E i \in 1..Len(components) : handleDelete(components[i].id, "component")
    \/ handleReset

EditorSpec == EditorInit /\ [][EditorNext]_vars

\* C20: after any sequence of editor operations the components of the
\* editor state have pairwise distinct ids, also when two components are
\* created without the clock having advanced between them.
C20_EditorIdsDistinct ==
    \A i, j \in 1..Len(components) :
        components[i].id = components[j].id => i = j

\* ------- a ring and one open element besides (a seventh input space)

\* seq with x put in at position q
InsertAt(seq, q, x) ==
    SubSeq(seq, 1, q - 1) \o <<x>> \o SubSeq(seq, q, Len(seq))

OpenTypes == {Capacitor, Oscilloscope}

\* a series ring of a source and n resistors, and one Capacitor or
\* Oscilloscope at any place of the list, each of its terminals wired to
\* nothing or to a terminal of the source
OpenExtraInit ==
    /\ \E n \in 1..(MaxRing - 1), V \in RingSourceValues, flip \in BOOLEAN,
          t \in OpenTypes :
          \E pos \in 1..(n + 1), rs \in [1..n -> RingResistorValues],
             q \in 1..(n + 2), w \in [1..2 -> AttachTargets] :
              /\ components =
                    InsertAt(RingComponents(n, pos, V, rs), q,
                             [id |-> Ids[n + 2], type |-> t,
                              value |-> DefaultValue])
              /\ connections =
                    RingConnections(n, flip)
                        \o AttachWires(<<n + 2>>, w, pos, 1)
    /\ NoCallYet

OpenExtraSpec == OpenExtraInit /\ [][Next]_vars

\* the components that write into the matrix: a Resistor (by its
\* conductance or by its branch current), a PowerSource, an Inductor
IsStamped(c) == c.type \in {Resistor, PowerSource, Inductor}

\* the non-ground nodes none of whose terminals belongs to a stamped
\* component
OpenOnlyNodes ==
    {nd \in NodeIds \ {groundNode} :
        \A j \in 1..Len(nodes[nd + 1]) :
            \A c \in ComponentSet :
                c.id = nodes[nd + 1][j].componentId => ~IsStamped(c)}

\* the list without component c
Without(c) == SelectSeq(components, LAMBDA x : x.id # c.id)

\* C21: in a circuit with a PowerSource, a non-ground node touched only by
\* terminals of Capacitors and Oscilloscopes makes runSimulation return the
\* empty mapping; so does, in particular, a Capacitor or Oscilloscope that
\* no connection touches.
C21_OpenOnlyNodeIsSingular ==
    (Returned /\ HasPowerSource) =>
        /\ OpenOnlyNodes # {} => (returnedAt = "singular" /\ results = EmptyMap)
        /\ \A c \in OfType(Capacitor) \cup OfType(Oscilloscope) :
              Unwired(c) => (returnedAt = "singular" /\ results = EmptyMap)

\* a ring of a source and a Resistor is solved on its own, and returns the
\* empty mapping with an unconnected Oscilloscope besides it
C21_Witness ==
    /\ Returned
    /\ Len(components) = 3
    /\ results = EmptyMap
    /\ \E c \in OfType(Oscilloscope) :
          /\ Unwired(c)
          /\ RunSimulationOf(Without(c), connections).returnedAt = "solved"

\* ------- two elements side by side, or one wired to itself (an eighth
\* ------- input space)

TwinKinds ==
    {[type |-> PowerSource, value |-> v] : v \in SourceValues}
    \cup {[type |-> Resistor, value |-> v] : v \in ResistorValues}
    \cup {[type |-> Inductor, value |-> DefaultValue]}

\* how the components at slots i and j are wired: terminal to like terminal,
\* terminal to unlike terminal, one wire only, or i's terminals to each other
TwinShapes == {"parallel", "crossed", "single", "self"}

TwinWires(i, j, shape) ==
    LET P(s, t) == [componentId |-> Ids[s], terminalIndex |-> t]
    IN  CASE shape = "parallel" ->
                <<[start |-> P(i, 0), end |-> P(j, 0)],
                  [start |-> P(j, 1), end |-> P(i, 1)]>>
          [] shape = "crossed" ->
                <<[start |-> P(i, 0), end |-> P(j, 1)],
                  [start |-> P(j, 0), end |-> P(i, 1)]>>
          [] shape = "single" ->
                <<[start |-> P(i, 0), end |-> P(j, 0)]>>
          [] shape = "self" ->
                <<[start |-> P(i, 0), end |-> P(i, 1)]>>

\* 2 .. MaxOthers + 2 components, one of them a PowerSource, two of them
\* wired in one of the shapes, the others free or wired to the first of
\* the two
TwinInit ==
    /\ \E k \in 0..MaxOthers, shape \in TwinShapes :
          \E i \in 1..(k + 2), j \in 1..(k + 2), ks \in [1..(k + 2) -> TwinKinds],
             w \in [1..(2 * k) -> AttachTargets] :
              /\ i < j
              /\ \E s \in 1..(k + 2) : ks[s].type = PowerSource
              /\ components = [s \in 1..(k + 2) |-> MkComponent(s, ks[s])]
              /\ connections =
                    TwinWires(i, j, shape)
                        \o AttachWires(OtherSlots(k + 2, i, j), w, i, 1)
    /\ NoCallYet

TwinSpec == TwinInit /\ [][Next]_vars

\* the nodes of the two terminals of component c
NodePair(c) == {terminalToNode[Key(c.id, 0)], terminalToNode[Key(c.id, 1)]}

\* two components with a branch current lie between the same two nodes
CurrentVarsInParallel ==
    \E a, b \in CurrentVarComponents :
        a.id # b.id /\ NodePair(a) = NodePair(b)

\* a component with a branch current has both terminals in one node
CurrentVarShorted == \E c \in CurrentVarComponents : SameNode(c)

SystemBuilt == returnedAt \in {"singular", "solved"}

\* C25: after a call on a non-empty list both terminals of every component
\* are keys of terminalToNode and map to a node of the list; when the
\* system is built the ground node is such a node too and every other node
\* has a matrix index of its own below numNodes - 1. So the test of the
\* result mapper for an unresolved terminal is false for every component,
\* and every node and index the stamps read is defined.
C25_TerminalsAlwaysResolved ==
    (Returned /\ Len(components) > 0) =>
        /\ \A k \in Terminals :
              MapHas(terminalToNode, k) /\ terminalToNode[k] \in NodeIds
        /\ SystemBuilt =>
              /\ groundNode \in NodeIds
              /\ DOMAIN nodeIndexMap = NodeIds \ {groundNode}
              /\ \A nd \in DOMAIN nodeIndexMap :
                    nodeIndexMap[nd] \in 0..(Len(nodes) - 2)
              /\ \A n1, n2 \in DOMAIN nodeIndexMap :
                    nodeIndexMap[n1] = nodeIndexMap[n2] => n1 = n2
              /\ Len(A) = (Len(nodes) - 1) + Cardinality(CurrentVarComponents)

\* a solved call on two components, a connection tying a terminal to a
\* component that is not in the list
C25_Witness ==
    /\ returnedAt = "solved"
    /\ \E conn \in ConnectionSet : IsDangling(conn) /\ ~IsSelfConnection(conn)
    /\ Len(components) = 2
    /\ Len(nodes) >= 2
    /\ \A k \in Terminals : MapHas(terminalToNode, k)

\* ------------------------------------------------ the matrix size

DrawNext ==
    \/ tick
    \/ \E pt \in DropPoints : handleDrop(Resistor, pt)
    \/ \E i \in 1..Len(components) : handleDuplicate(components[i].id)
    \/ \E i \in 1..Len(components) : handleDelete(components[i].id, "component")
    \/ \E i \in 1..Len(connections) : handleDelete(connections[i].id, "wire")
    \/ handleReset
    \/ \E i \in 1..Len(components), t \in {0, 1} :
          handleTerminalMouseDown(components[i].id, t)
    \/ \E i \in 1..Len(components), t \in {0, 1} :
          handleTerminalMouseUp(components[i].id, t)
    \/ handleMouseUp

DrawSpec == EditorInit /\ [][DrawNext]_vars

\* C24: after any sequence of editor operations both endpoints of every
\* connection of the editor state name a component of the component list.
C24_ConnectionsReferToComponents ==
    \A i \in 1..Len(connections) :
        /\ connections[i].start.componentId \in IdsOf(components)
        /\ connections[i].end.componentId \in IdsOf(components)

\* ------------------------------------------ the editor: simulating

\* a canvas of up to MaxComponents sources and resistors is built, wired
\* from terminals 1 to terminals 0, and simulated from the toolbar
SimulateNext ==
    \/ tick
    \/ \E m \in {Circuit, Signal} : setMode(m)
    \/ \E t \in DropTypes, pt \in DropPoints :
          Len(components) < MaxComponents /\ handleDrop(t, pt)
    \/ \E i \in 1..Len(components) :
          handleTerminalMouseDown(components[i].id, 1)
    \/ \E i \in 1..Len(components) :
          handleTerminalMouseUp(components[i].id, 0)
    \/ handleSimulate

SimulateSpec == EditorInit /\ [][SimulateNext]_vars

HasStoredResult(c) == {"voltage", "current"} \subseteq DOMAIN c

\* C23: a run of handleSimulate leaves the connections as they are; outside
\* Circuit mode, or when runSimulation returned the empty mapping, it
\* leaves every component as it is, stored voltage and current (or their
\* absence) included; on a non-empty result every component whose id is a
\* key has exactly the voltage and current of its entry, its other fields
\* as before, and every other component is as it was.
C23_SimulateStoresOrLeaves ==
    [][calls' = calls + 1 =>
          /\ connections' = connections
          /\ mode' = mode
          /\ IF mode # Circuit \/ results' = EmptyMap
             THEN components' = components
             ELSE /\ Len(components') = Len(components)
                  /\ \A i \in 1..Len(components) :
                        IF MapHas(results', components[i].id)
                        THEN /\ components'[i].voltage =
                                   results'[components[i].id].voltage
                             /\ components'[i].current =
                                   results'[components[i].id].current
                             /\ WithoutResults(components'[i]) =
                                   WithoutResults(components[i])
                        ELSE components'[i] = components[i]]_vars

\* a second run has returned the empty mapping (a Resistor was dropped
\* beside a source that an earlier run had solved): the source still holds
\* its stored result, the Resistor holds none
C23_Witness ==
    /\ calls = 2
    /\ returnedAt = "singular"
    /\ results = EmptyMap
    /\ \E c \in ComponentSet :
          /\ c.type = PowerSource
          /\ HasStoredResult(c)
          /\ c.voltage = DefaultValue
    /\ \E c \in ComponentSet : c.type = Resistor /\ ~HasStoredResult(c)

=============================================================================
